---------------------------- MODULE Spec2Model ----------------------------
(***************************************************************************)
(* Nexus-LLM notebook client.                                              *)
(*                                                                         *)
(* Part 1: the WAV container builder addWavHeader of                       *)
(* src/hooks/useNotebook.ts and the buffers it works on.                   *)
(* Part 2: the notebook itself: the state of the useNotebook hook and of   *)
(* the App component, the handlers that change it and the requests to the  *)
(* generative-AI service that are in flight.                               *)
(*                                                                         *)
(* ArrayBuffers live in a heap (a sequence of byte sequences, a reference  *)
(* is an index into it), so that "a new buffer" and "the same buffer" are  *)
(* different things.  Byte offsets are the code's, counted from 0; the     *)
(* byte at offset o of a buffer b is b[o + 1].                             *)
(*                                                                         *)
(* A JavaScript number holding a non-negative integer is modelled exactly  *)
(* as the little-endian sequence of its base-256 digits without leading    *)
(* zero digits (0 is << >>): the values that matter for a 32-bit field lie *)
(* beyond the range of TLC's own integers.  All values of the model stay   *)
(* below 2^53, where the code's double arithmetic is exact.                *)
(***************************************************************************)
EXTENDS Integers, Sequences, FiniteSets, TLC

\* Longest samples buffer, in bytes.
MaxLen == 2

\* Calls of addWavHeader in one run.
MaxCalls == 2

\* Writes the caller makes to the buffers after the call has returned.
MaxWrites == 1

VARIABLES
    heap,         \* the ArrayBuffers allocated so far
    samples,      \* reference of the samples argument
    sampleRate,   \* the sampleRate argument
    numChannels,  \* the numChannels argument
    wav,          \* reference addWavHeader returned, 0 before it returns
    pc,           \* "ready": arguments chosen; "returned"; "threw"
    calls,        \* the calls made so far: arguments and result of each
    shadow,       \* what the caller itself put into the two buffers
    writes        \* number of writes made after the call

vars == <<heap, samples, sampleRate, numChannels, wav, pc, calls, shadow, writes>>

VARIABLES
    \* useNotebook: React state
    sources,              \* Source[]
    notes,                \* Note[]
    history,              \* ChatMessage[]
    audioOverview,        \* AudioOverviewState
    isGeneratingChat,
    suggestedQuestions,
    hasFetchedQuestions,
    \* App: React state
    notifications,        \* string[], each with the identity of its add
    isStudioGenerating,
    \* asynchronous work in progress
    chatCalls,            \* sendMessage invocations awaiting generateChatResponse
    audioCalls,           \* generateAudio invocations, each at one of its awaits
    studioCalls,          \* handleGenerateStudio invocations awaiting the service
    questionFetches,      \* generateSuggestedQuestions promises, in the order issued
    timers,               \* setTimeout callbacks not yet run, in scheduling order
    \* bookkeeping
    nextId,               \* the next identity crypto.randomUUID() hands out
    count,                \* requests issued so far, by service function; notifications
                          \* added, timers run, Create clicks handled, generateAudio
                          \* calls that returned at once
    last                  \* what the latest step did, in order

nbVars == <<sources, notes, history, audioOverview, isGeneratingChat,
            suggestedQuestions, hasFetchedQuestions, notifications,
            isStudioGenerating, chatCalls, audioCalls, studioCalls,
            questionFetches, timers, nextId, count, last>>

\* The notebook after the first render: the useState initial values, nothing
\* in progress.  The effects of the first render find no sources and do nothing.
NotebookInit ==
    /\ sources = << >>
    /\ notes = << >>
    /\ history = << >>
    /\ audioOverview = [status |-> "idle"]
    /\ isGeneratingChat = FALSE
    /\ suggestedQuestions = << >>
    /\ hasFetchedQuestions = FALSE
    /\ notifications = << >>
    /\ isStudioGenerating = FALSE
    /\ chatCalls = << >>
    /\ audioCalls = << >>
    /\ studioCalls = << >>
    /\ questionFetches = << >>
    /\ timers = << >>
    /\ nextId = 1
    /\ count = [chat |-> 0, script |-> 0, speech |-> 0, studio |-> 0, questions |-> 0,
                notify |-> 0, timer |-> 0, create |-> 0, returned |-> 0]
    /\ last = << >>

---------------------------------------------------------------------------
(* Exact non-negative integers *)

RECURSIVE Num(_)
\* The number n of TLC's integers.
Num(n) == IF n = 0 THEN << >> ELSE <<n % 256>> \o Num(n \div 256)

RECURSIVE Trim(_)
\* Digits without leading (most significant) zero digits.
Trim(d) ==
    IF d = << >> THEN << >>
    ELSE IF d[Len(d)] = 0 THEN Trim(SubSeq(d, 1, Len(d) - 1))
    ELSE d

\* floor(v / 256^k) mod 256
DigitAt(v, k) == IF k + 1 <= Len(v) THEN v[k + 1] ELSE 0

RECURSIVE AddCarry(_, _, _)
AddCarry(a, b, c) ==
    IF a = << >> /\ b = << >> THEN Num(c)
    ELSE LET s == DigitAt(a, 0) + DigitAt(b, 0) + c
             ta == IF a = << >> THEN << >> ELSE Tail(a)
             tb == IF b = << >> THEN << >> ELSE Tail(b)
         IN  <<s % 256>> \o AddCarry(ta, tb, s \div 256)

\* a + b
NumAdd(a, b) == AddCarry(a, b, 0)

RECURSIVE MulDigit(_, _, _)
MulDigit(a, d, c) ==
    IF a = << >> THEN Num(c)
    ELSE LET p == a[1] * d + c
         IN  <<p % 256>> \o MulDigit(Tail(a), d, p \div 256)

RECURSIVE NumMul(_, _)
\* a * b
NumMul(a, b) ==
    IF b = << >> THEN << >>
    ELSE LET rest == NumMul(a, Tail(b))
             shifted == IF rest = << >> THEN << >> ELSE <<0>> \o rest
         IN  NumAdd(Trim(MulDigit(a, b[1], 0)), shifted)

\* a < b
NumLess(a, b) ==
    \/ Len(a) < Len(b)
    \/ /\ Len(a) = Len(b)
       /\ \E k \in 1..Len(a) :
            /\ a[k] < b[k]
            /\ \A j \in (k + 1)..Len(a) : a[j] = b[j]

\* 2^16 and 2^32
Pow2_16 == NumMul(Num(256), Num(256))
Pow2_32 == NumMul(Pow2_16, Pow2_16)

\* v mod 256^w: the conversion ToUint8, ToUint16, ToUint32 of a DataView
\* setter for w = 1, 2, 4.
ToUint(v, w) == Trim(SubSeq(v, 1, IF Len(v) < w THEN Len(v) ELSE w))

---------------------------------------------------------------------------
(* ArrayBuffer and DataView *)

\* new ArrayBuffer(n): n zero bytes, under a fresh reference.  The result
\* is the state a run of addWavHeader threads through its statements: the
\* heap, the buffer under construction, and whether an exception was thrown.
NewArrayBuffer(h, n) ==
    [heap |-> Append(h, [i \in 1..n |-> 0]), ref |-> Len(h) + 1, threw |-> FALSE]

\* view.setUint8 / setUint16 / setUint32 (byteOffset, value, littleEndian)
\* on the buffer ref: RangeError when the w bytes do not fit, else the w
\* bytes of value mod 256^w, least significant first iff littleEndian.
\* Nothing more happens once an exception is thrown.
setUint(st, ref, byteOffset, value, w, littleEndian) ==
    IF st.threw THEN st
    ELSE IF byteOffset + w > Len(st.heap[ref]) THEN [st EXCEPT !.threw = TRUE]
    ELSE LET n == ToUint(value, w)
             byteAt(k) == IF littleEndian THEN DigitAt(n, k)
                          ELSE DigitAt(n, w - 1 - k)
         IN  [st EXCEPT !.heap[ref] =
                 [i \in 1..Len(@) |->
                     IF i - 1 >= byteOffset /\ i - 1 < byteOffset + w
                     THEN byteAt(i - 1 - byteOffset)
                     ELSE @[i]]]

setUint8(st, ref, byteOffset, value) ==
    setUint(st, ref, byteOffset, value, 1, TRUE)

setUint16(st, ref, byteOffset, value, littleEndian) ==
    setUint(st, ref, byteOffset, value, 2, littleEndian)

setUint32(st, ref, byteOffset, value, littleEndian) ==
    setUint(st, ref, byteOffset, value, 4, littleEndian)

\* The string literals of addWavHeader, as their char codes.
RIFF == <<82, 73, 70, 70>>
WAVE == <<87, 65, 86, 69>>
FMT_ == <<102, 109, 116, 32>>
DATA == <<100, 97, 116, 97>>

RECURSIVE writeStringFrom(_, _, _, _, _)
\* The loop of writeString from index i on.
writeStringFrom(st, ref, offset, string, i) ==
    IF i >= Len(string) THEN st
    ELSE writeStringFrom(setUint8(st, ref, offset + i, Num(string[i + 1])),
                         ref, offset, string, i + 1)

writeString(st, ref, offset, string) == writeStringFrom(st, ref, offset, string, 0)

\* new Uint8Array(buffer, byteOffset).set(new Uint8Array(source)):
\* RangeError when byteOffset lies beyond the buffer or the source is longer
\* than the view, else the source's bytes, in order, from byteOffset on.
setBytes(st, ref, byteOffset, source) ==
    IF st.threw THEN st
    ELSE IF \/ byteOffset > Len(st.heap[ref])
            \/ Len(st.heap[source]) > Len(st.heap[ref]) - byteOffset
         THEN [st EXCEPT !.threw = TRUE]
    ELSE LET src == st.heap[source]
         IN  [st EXCEPT !.heap[ref] =
                 [i \in 1..Len(@) |->
                     IF i - 1 >= byteOffset /\ i - 1 < byteOffset + Len(src)
                     THEN src[i - byteOffset]
                     ELSE @[i]]]

---------------------------------------------------------------------------
(* addWavHeader *)

\* Mutant: the header counted one byte too long.
allocBuffer_OffByOne(h, byteLength) == NewArrayBuffer(h, 45 + byteLength)

\* const buffer = new ArrayBuffer(44 + samples.byteLength)
allocBuffer(h, byteLength) == NewArrayBuffer(h, 44 + byteLength)

\* Mutant: ChunkSize holds the whole file's size, the 8 bytes before it included.
writeRiffChunk_FileSize(st, buffer, byteLength) ==
    LET s1 == writeString(st, buffer, 0, RIFF)
        s2 == setUint32(s1, buffer, 4, Num(44 + byteLength), TRUE)
    IN  writeString(s2, buffer, 8, WAVE)

\* Mutant: ChunkSize computed from a total kept across calls (here: it
\* grows with the buffers allocated before this call's).
writeRiffChunk_Stateful(st, buffer, byteLength) ==
    LET s1 == writeString(st, buffer, 0, RIFF)
        s2 == setUint32(s1, buffer, 4, Num(36 + byteLength + (Len(st.heap) - 2)), TRUE)
    IN  writeString(s2, buffer, 8, WAVE)

\* 'RIFF', ChunkSize, 'WAVE'
writeRiffChunk(st, buffer, byteLength) ==
    LET s1 == writeString(st, buffer, 0, RIFF)
        s2 == setUint32(s1, buffer, 4, Num(36 + byteLength), TRUE)
    IN  writeString(s2, buffer, 8, WAVE)

\* Mutant: ByteRate without the 2 bytes of a sample.
writeFmtChunk_ByteRateNoWidth(st, buffer, rate, channels) ==
    LET s1 == writeString(st, buffer, 12, FMT_)
        s2 == setUint32(s1, buffer, 16, Num(16), TRUE)
        s3 == setUint16(s2, buffer, 20, Num(1), TRUE)
        s4 == setUint16(s3, buffer, 22, channels, TRUE)
        s5 == setUint32(s4, buffer, 24, rate, TRUE)
        s6 == setUint32(s5, buffer, 28, NumMul(rate, channels), TRUE)
        s7 == setUint16(s6, buffer, 32, NumMul(channels, Num(2)), TRUE)
    IN  setUint16(s7, buffer, 34, Num(16), TRUE)

\* Mutant: BlockAlign without the 2 bytes of a sample.
writeFmtChunk_BlockAlignNoWidth(st, buffer, rate, channels) ==
    LET s1 == writeString(st, buffer, 12, FMT_)
        s2 == setUint32(s1, buffer, 16, Num(16), TRUE)
        s3 == setUint16(s2, buffer, 20, Num(1), TRUE)
        s4 == setUint16(s3, buffer, 22, channels, TRUE)
        s5 == setUint32(s4, buffer, 24, rate, TRUE)
        s6 == setUint32(s5, buffer, 28, NumMul(NumMul(rate, channels), Num(2)), TRUE)
        s7 == setUint16(s6, buffer, 32, channels, TRUE)
    IN  setUint16(s7, buffer, 34, Num(16), TRUE)

\* Mutant: 'fmt' written without its trailing space.
writeFmtChunk_ShortTag(st, buffer, rate, channels) ==
    LET s1 == writeString(st, buffer, 12, <<102, 109, 116>>)
        s2 == setUint32(s1, buffer, 16, Num(16), TRUE)
        s3 == setUint16(s2, buffer, 20, Num(1), TRUE)
        s4 == setUint16(s3, buffer, 22, channels, TRUE)
        s5 == setUint32(s4, buffer, 24, rate, TRUE)
        s6 == setUint32(s5, buffer, 28, NumMul(NumMul(rate, channels), Num(2)), TRUE)
        s7 == setUint16(s6, buffer, 32, NumMul(channels, Num(2)), TRUE)
    IN  setUint16(s7, buffer, 34, Num(16), TRUE)

\* Mutant: the littleEndian argument of the SampleRate write left out.
writeFmtChunk_BigEndianRate(st, buffer, rate, channels) ==
    LET s1 == writeString(st, buffer, 12, FMT_)
        s2 == setUint32(s1, buffer, 16, Num(16), TRUE)
        s3 == setUint16(s2, buffer, 20, Num(1), TRUE)
        s4 == setUint16(s3, buffer, 22, channels, TRUE)
        s5 == setUint32(s4, buffer, 24, rate, FALSE)
        s6 == setUint32(s5, buffer, 28, NumMul(NumMul(rate, channels), Num(2)), TRUE)
        s7 == setUint16(s6, buffer, 32, NumMul(channels, Num(2)), TRUE)
    IN  setUint16(s7, buffer, 34, Num(16), TRUE)

\* 'fmt ', Subchunk1Size, AudioFormat, NumChannels, SampleRate, ByteRate,
\* BlockAlign, BitsPerSample
writeFmtChunk(st, buffer, rate, channels) ==
    LET s1 == writeString(st, buffer, 12, FMT_)
        s2 == setUint32(s1, buffer, 16, Num(16), TRUE)
        s3 == setUint16(s2, buffer, 20, Num(1), TRUE)
        s4 == setUint16(s3, buffer, 22, channels, TRUE)
        s5 == setUint32(s4, buffer, 24, rate, TRUE)
        s6 == setUint32(s5, buffer, 28, NumMul(NumMul(rate, channels), Num(2)), TRUE)
        s7 == setUint16(s6, buffer, 32, NumMul(channels, Num(2)), TRUE)
    IN  setUint16(s7, buffer, 34, Num(16), TRUE)

\* 'data', Subchunk2Size
writeDataChunk(st, buffer, byteLength) ==
    LET s1 == writeString(st, buffer, 36, DATA)
    IN  setUint32(s1, buffer, 40, Num(byteLength), TRUE)

\* Mutant: the samples copied to offset 40.
copySamples_At40(st, buffer, source) == setBytes(st, buffer, 40, source)

\* Mutant: the copy made in the other direction,
\* new Uint8Array(samples).set(new Uint8Array(buffer, 44)).
copySamples_Reversed(st, buffer, source) ==
    IF st.threw THEN st
    ELSE [st EXCEPT !.heap[source] = [i \in 1..Len(@) |-> st.heap[buffer][44 + i]]]

\* new Uint8Array(buffer, 44).set(new Uint8Array(samples))
copySamples(st, buffer, source) == setBytes(st, buffer, 44, source)

\* Mutant: a hardened builder, which rejects an empty samples buffer.
addWavHeader_Hardened(h, source, rate, channels) ==
    LET byteLength == Len(h[source])
        buffer == Len(h) + 1
        s0 == allocBuffer(h, byteLength)
        s1 == writeRiffChunk(s0, buffer, byteLength)
        s2 == writeFmtChunk(s1, buffer, rate, channels)
        s3 == writeDataChunk(s2, buffer, byteLength)
    IN  IF byteLength = 0 THEN [heap |-> h, ref |-> 0, threw |-> TRUE]
        ELSE copySamples(s3, buffer, source)

\* addWavHeader(samples, sampleRate, numChannels) run on the heap h:
\* the heap afterwards, whether it threw, and the reference it returns.
addWavHeader(h, source, rate, channels) ==
    LET byteLength == Len(h[source])
        buffer == Len(h) + 1
        s0 == allocBuffer(h, byteLength)
        s1 == writeRiffChunk(s0, buffer, byteLength)
        s2 == writeFmtChunk(s1, buffer, rate, channels)
        s3 == writeDataChunk(s2, buffer, byteLength)
    IN  copySamples(s3, buffer, source)

---------------------------------------------------------------------------
(* The caller *)

\* Byte values of the samples the caller supplies.
SampleBytes == {1, 255}

RECURSIVE SeqsUpTo(_, _)
\* The sequences over S of length at most n.
SeqsUpTo(S, n) ==
    IF n = 0 THEN {<< >>}
    ELSE LET shorter == SeqsUpTo(S, n - 1)
         IN  shorter \cup {Append(s, x) : s \in {t \in shorter : Len(t) = n - 1}, x \in S}

Buffers == SeqsUpTo(SampleBytes, MaxLen)

\* Sample rates: the caller's 24000, 2^31, and 2^32 + 24000.
SampleRates ==
    {Num(24000), NumMul(Num(32768), Pow2_16), NumAdd(Pow2_32, Num(24000))}

\* Channel counts: 1, 2, 2^15 and 2^16 + 1.
ChannelCounts == {Num(1), Num(2), Num(32768), Num(65537)}

WavInit ==
    /\ \E b \in Buffers : heap = <<b>>
    /\ samples = 1
    /\ sampleRate \in SampleRates
    /\ numChannels \in ChannelCounts
    /\ wav = 0
    /\ pc = "ready"
    /\ calls = << >>
    /\ shadow = [in |-> << >>, out |-> << >>]
    /\ writes = 0
    /\ NotebookInit

\* What the caller holds once the call has ended with r.
Returned(r) ==
    /\ heap' = r.heap
    /\ wav' = IF r.threw THEN 0 ELSE r.ref
    /\ pc' = IF r.threw THEN "threw" ELSE "returned"
    /\ calls' = Append(calls,
           [source |-> samples, samples |-> heap[samples], sampleRate |-> sampleRate,
            numChannels |-> numChannels, threw |-> r.threw,
            ref |-> IF r.threw THEN 0 ELSE r.ref,
            out |-> IF r.threw THEN << >> ELSE r.heap[r.ref]])
    /\ shadow' = [in |-> heap[samples],
                  out |-> IF r.threw THEN << >> ELSE r.heap[r.ref]]

\* The call addWavHeader(samples, sampleRate, numChannels).
Call ==
    /\ pc = "ready"
    /\ Len(calls) < MaxCalls
    /\ Returned(addWavHeader(heap, samples, sampleRate, numChannels))
    /\ UNCHANGED <<samples, sampleRate, numChannels, writes>>
    /\ UNCHANGED nbVars

\* The caller sets up the next call: the same arguments with a fresh samples
\* buffer, the same arguments again, or the buffer it has with another
\* sample rate and channel count.
NextInput ==
    /\ pc = "returned"
    /\ Len(calls) < MaxCalls
    /\ \/ /\ \E b \in Buffers :
               /\ heap' = Append(heap, b)
               /\ samples' = Len(heap) + 1
          /\ UNCHANGED <<sampleRate, numChannels>>
       \/ UNCHANGED <<heap, samples, sampleRate, numChannels>>
       \/ /\ sampleRate' \in SampleRates
          /\ numChannels' \in ChannelCounts
          /\ <<sampleRate', numChannels'>> # <<sampleRate, numChannels>>
          /\ UNCHANGED <<heap, samples>>
    /\ wav' = 0
    /\ pc' = "ready"
    /\ UNCHANGED <<calls, shadow, writes>>
    /\ UNCHANGED nbVars

WavNext == Call \/ NextInput

\* Calls of addWavHeader, one after the other.
WavSpec == WavInit /\ [][WavNext]_<<vars, nbVars>>

\* The byte a later write stores.
PokeBytes == {170}

\* After the call the caller writes byte b at offset o of the samples buffer.
WriteInput ==
    /\ pc = "returned"
    /\ writes < MaxWrites
    /\ \E o \in 0..(Len(heap[samples]) - 1), b \in PokeBytes :
          /\ heap' = [heap EXCEPT ![samples][o + 1] = b]
          /\ shadow' = [shadow EXCEPT !.in[o + 1] = b]
    /\ writes' = writes + 1
    /\ UNCHANGED <<samples, sampleRate, numChannels, wav, pc, calls>>
    /\ UNCHANGED nbVars

\* After the call the caller writes byte b at offset o of the returned buffer.
WriteOutput ==
    /\ pc = "returned"
    /\ writes < MaxWrites
    /\ \E o \in 0..(Len(heap[wav]) - 1), b \in PokeBytes :
          /\ heap' = [heap EXCEPT ![wav][o + 1] = b]
          /\ shadow' = [shadow EXCEPT !.out[o + 1] = b]
    /\ writes' = writes + 1
    /\ UNCHANGED <<samples, sampleRate, numChannels, wav, pc, calls>>
    /\ UNCHANGED nbVars

AliasNext == Call \/ WriteInput \/ WriteOutput

\* One call of addWavHeader, then writes to its argument and to its result.
AliasSpec == WavInit /\ [][AliasNext]_<<vars, nbVars>>

---------------------------------------------------------------------------
(* Properties of addWavHeader.  Each is stated of every call, in the state  *)
(* in which it ends: c.samples are the bytes of the samples buffer when    *)
(* the call was made, c.out the bytes of the buffer it returned.           *)

\* The unsigned integer stored little-endian in the w bytes at offset o.
Field(out, o, w) == Trim(SubSeq(out, o + 1, o + w))

\* floor(n / 256^k) mod 256, for a number n of TLC's integers.
ByteOf(n, k) == (n \div (256 ^ k)) % 256

\* v with its low 32 (16) bits dropped: floor(v / 2^32), floor(v / 2^16).
High32(v) == IF Len(v) <= 4 THEN << >> ELSE SubSeq(v, 5, Len(v))
High16(v) == IF Len(v) <= 2 THEN << >> ELSE SubSeq(v, 3, Len(v))

\* f = v mod 2^32, f = v mod 2^16
IsMod32(f, v) == NumLess(f, Pow2_32) /\ NumAdd(f, NumMul(High32(v), Pow2_32)) = v
IsMod16(f, v) == NumLess(f, Pow2_16) /\ NumAdd(f, NumMul(High16(v), Pow2_16)) = v

\* sampleRate * numChannels * 2 and numChannels * 2 of the call c
ByteRateOf(c) == NumMul(NumMul(c.sampleRate, c.numChannels), Num(2))
BlockAlignOf(c) == NumMul(c.numChannels, Num(2))

\* n is a multiple of m
IsMultiple(n, m) == \E k \in 0..n : NumMul(Num(k), m) = Num(n)

\* The calls made so far, and the call that has just ended.  Every call is
\* the one that has just ended in the state it ends in.
Made == {calls[i] : i \in 1..Len(calls)}
Ended == IF pc \in {"returned", "threw"} THEN {calls[Len(calls)]} ELSE {}

\* C1: the buffer addWavHeader returns is exactly 44 bytes longer than the
\* samples buffer it was given.
C1_OutputLength ==
    \A c \in Ended : ~c.threw => Len(c.out) = 44 + Len(c.samples)

C1_Witness ==
    \E c \in Made : ~c.threw /\ Len(c.samples) = 2 /\ Len(c.out) = 46

\* C2: the declared sizes equal the byte counts that follow them: the field
\* at offset 4 is 36 + samples.length, the output's length minus 8, and the
\* field at offset 40 is samples.length, the number of bytes after offset 44.
C2_DeclaredSizes ==
    \A c \in Ended : ~c.threw =>
        /\ Field(c.out, 4, 4) = Num(36 + Len(c.samples))
        /\ Field(c.out, 4, 4) = Num(Len(c.out) - 8)
        /\ Field(c.out, 40, 4) = Num(Len(c.samples))
        /\ Field(c.out, 40, 4) = Num(Len(c.out) - 44)

C2_Witness ==
    \E c \in Made :
        /\ ~c.threw /\ Len(c.samples) = 2
        /\ SubSeq(c.out, 5, 8) = <<38, 0, 0, 0>>
        /\ SubSeq(c.out, 41, 44) = <<2, 0, 0, 0>>

\* C3: the bytes of the output from offset 44 on are the samples, byte for
\* byte and in the same order.
C3_SamplesVerbatim ==
    \A c \in Ended : ~c.threw =>
        /\ Len(c.out) >= 44
        /\ SubSeq(c.out, 45, Len(c.out)) = c.samples

C3_Witness ==
    \E c \in Made :
        ~c.threw /\ c.samples = <<1, 255>> /\ c.out[45] = 1 /\ c.out[46] = 255

\* C4, as claimed: the field at offset 24 is sampleRate and the field at
\* offset 28 is sampleRate * numChannels * 2, neither of them truncated.
C4_RatesUntruncated ==
    \A c \in Ended : ~c.threw =>
        /\ Field(c.out, 24, 4) = c.sampleRate
        /\ Field(c.out, 28, 4) = ByteRateOf(c)

\* C4, amended: the field at offset 24 is sampleRate mod 2^32 and the field
\* at offset 28 is (sampleRate * numChannels * 2) mod 2^32; each is the
\* value itself exactly when that value is below 2^32.
C4_RatesMod32 ==
    \A c \in Ended : ~c.threw =>
        /\ IsMod32(Field(c.out, 24, 4), c.sampleRate)
        /\ IsMod32(Field(c.out, 28, 4), ByteRateOf(c))
        /\ NumLess(c.sampleRate, Pow2_32) <=> Field(c.out, 24, 4) = c.sampleRate
        /\ NumLess(ByteRateOf(c), Pow2_32) <=> Field(c.out, 28, 4) = ByteRateOf(c)

\* A call whose byte rate, 2^31 * 1 * 2, does not fit and is stored as 0,
\* and a call whose rates both fit.
C4_Witness ==
    /\ \E c \in Made :
        /\ ~c.threw /\ c.sampleRate = <<0, 0, 0, 128>> /\ c.numChannels = <<1>>
        /\ SubSeq(c.out, 25, 32) = <<0, 0, 0, 128, 0, 0, 0, 0>>
    /\ \E c \in Made :
        /\ ~c.threw /\ c.sampleRate = Num(24000) /\ c.numChannels = <<2>>
        /\ Field(c.out, 28, 4) = Num(96000)

\* C5, as claimed: the field at offset 22 is numChannels, the field at
\* offset 32 is numChannels * 2, neither of them truncated, and the field at
\* offset 34 is 16.
C5_ChannelsUntruncated ==
    \A c \in Ended : ~c.threw =>
        /\ Field(c.out, 22, 2) = c.numChannels
        /\ Field(c.out, 32, 2) = BlockAlignOf(c)
        /\ Field(c.out, 34, 2) = Num(16)

\* C5, amended: the field at offset 22 is numChannels mod 2^16 and the field
\* at offset 32 is (numChannels * 2) mod 2^16; each is the value itself
\* exactly when that value is below 2^16.  The field at offset 34 is 16.
C5_ChannelsMod16 ==
    \A c \in Ended : ~c.threw =>
        /\ IsMod16(Field(c.out, 22, 2), c.numChannels)
        /\ IsMod16(Field(c.out, 32, 2), BlockAlignOf(c))
        /\ NumLess(c.numChannels, Pow2_16) <=> Field(c.out, 22, 2) = c.numChannels
        /\ NumLess(BlockAlignOf(c), Pow2_16) <=> Field(c.out, 32, 2) = BlockAlignOf(c)
        /\ Field(c.out, 34, 2) = Num(16)

\* A call with 2^15 channels, whose block align 2^16 is stored as 0, and a
\* call with 2 channels, whose block align is 4.
C5_Witness ==
    /\ \E c \in Made :
        /\ ~c.threw /\ c.numChannels = Num(32768)
        /\ SubSeq(c.out, 23, 24) = <<0, 128>>
        /\ SubSeq(c.out, 33, 36) = <<0, 0, 16, 0>>
    /\ \E c \in Made :
        /\ ~c.threw /\ c.numChannels = Num(2)
        /\ SubSeq(c.out, 33, 36) = <<4, 0, 16, 0>>

\* C6: the constant fields are the same whatever the input: "RIFF" at 0,
\* "WAVE" at 8, "fmt " at 12, "data" at 36, 16 in the 32-bit field at offset
\* 16 and 1 in the 16-bit field at offset 20.
C6_ConstantFields ==
    \A c \in Ended : ~c.threw =>
        /\ SubSeq(c.out, 1, 4) = <<82, 73, 70, 70>>
        /\ SubSeq(c.out, 9, 12) = <<87, 65, 86, 69>>
        /\ SubSeq(c.out, 13, 16) = <<102, 109, 116, 32>>
        /\ SubSeq(c.out, 37, 40) = <<100, 97, 116, 97>>
        /\ SubSeq(c.out, 17, 20) = <<16, 0, 0, 0>>
        /\ SubSeq(c.out, 21, 22) = <<1, 0>>

\* Two calls with different samples, the same constant fields in both.
C6_Witness ==
    \E c, d \in Made :
        /\ ~c.threw /\ ~d.threw
        /\ Len(c.samples) = 0 /\ Len(d.samples) = 2
        /\ SubSeq(c.out, 1, 4) = <<82, 73, 70, 70>>
        /\ SubSeq(d.out, 13, 22) = <<102, 109, 116, 32, 16, 0, 0, 0, 1, 0>>

\* C7: every integer field is little-endian: byte o + k of a field of value
\* v at offset o holds floor(v / 256^k) mod 256; a sample rate of 24000 is
\* the bytes C0 5D 00 00.
C7_LittleEndian ==
    \A c \in Ended : ~c.threw =>
        /\ \A k \in 0..3 :
            /\ c.out[4 + k + 1] = ByteOf(36 + Len(c.samples), k)
            /\ c.out[16 + k + 1] = ByteOf(16, k)
            /\ c.out[24 + k + 1] = DigitAt(c.sampleRate, k)
            /\ c.out[28 + k + 1] = DigitAt(ByteRateOf(c), k)
            /\ c.out[40 + k + 1] = ByteOf(Len(c.samples), k)
        /\ \A k \in 0..1 :
            /\ c.out[20 + k + 1] = ByteOf(1, k)
            /\ c.out[22 + k + 1] = DigitAt(c.numChannels, k)
            /\ c.out[32 + k + 1] = DigitAt(BlockAlignOf(c), k)
            /\ c.out[34 + k + 1] = ByteOf(16, k)
        /\ c.sampleRate = Num(24000) => SubSeq(c.out, 25, 28) = <<192, 93, 0, 0>>

C7_Witness ==
    \E c \in Made :
        /\ ~c.threw /\ c.sampleRate = Num(24000) /\ c.numChannels = Num(2)
        /\ SubSeq(c.out, 25, 32) = <<192, 93, 0, 0, 0, 119, 1, 0>>

\* C8: two calls with equal sampleRate and numChannels and byte-identical
\* samples return byte-identical outputs, whatever was called before.
C8_Deterministic ==
    \A c \in Ended, d \in Made :
        (/\ c.samples = d.samples
         /\ c.sampleRate = d.sampleRate
         /\ c.numChannels = d.numChannels)
        => c.threw = d.threw /\ c.out = d.out

\* Two calls on distinct buffers that hold the same two bytes.
C8_Witness ==
    /\ Len(calls) = 2
    /\ calls[1].source # calls[2].source
    /\ calls[1].ref # calls[2].ref
    /\ calls[1].samples = <<255, 1>> /\ calls[2].samples = <<255, 1>>
    /\ ~calls[1].threw /\ ~calls[2].threw
    /\ calls[1].out = calls[2].out

\* C9: addWavHeader never throws and validates nothing: for an empty samples
\* buffer it returns the 44 bytes of the header, with 36 at offset 4 and 0 at
\* offset 40; for samples whose length is no multiple of numChannels * 2 it
\* returns 44 + samples.length bytes whose size fields state that length.
C9_NoValidation ==
    \A c \in Ended :
        /\ ~c.threw
        /\ Len(c.samples) = 0 =>
            /\ Len(c.out) = 44
            /\ SubSeq(c.out, 5, 8) = <<36, 0, 0, 0>>
            /\ SubSeq(c.out, 41, 44) = <<0, 0, 0, 0>>
        /\ ~IsMultiple(Len(c.samples), BlockAlignOf(c)) =>
            /\ Len(c.out) = 44 + Len(c.samples)
            /\ Field(c.out, 4, 4) = Num(36 + Len(c.samples))
            /\ Field(c.out, 40, 4) = Num(Len(c.samples))

\* A call on an empty buffer and a call on one byte of a stereo stream.
C9_Witness ==
    \E c, d \in Made :
        /\ ~c.threw /\ Len(c.samples) = 0 /\ Len(c.out) = 44
        /\ ~d.threw /\ Len(d.samples) = 1 /\ d.numChannels = Num(2)
        /\ Len(d.out) = 45

\* C10: the call leaves the samples buffer as it was and returns a buffer
\* that did not exist before; afterwards each of the two holds what the call
\* left in it and what the caller itself has written to it since, so a write
\* to one does not show in the other.
C10_InputUntouched ==
    pc = "returned" =>
        /\ wav # samples
        /\ wav = Len(heap)
        /\ heap[samples] = shadow.in
        /\ heap[wav] = shadow.out

\* The input was overwritten after the call; the output still holds the
\* samples it was built from.
C10_Witness ==
    /\ pc = "returned" /\ writes = 1
    /\ calls[1].samples = <<1, 255>>
    /\ heap[samples] = <<170, 255>>
    /\ SubSeq(heap[wav], 45, 46) = <<1, 255>>


(***************************************************************************)
(* Part 2: the notebook.                                                   *)
(*                                                                         *)
(* One step is one task of the page: a handler run by a user event, or the *)
(* continuation of an await, a promise callback or a timer callback,       *)
(* together with the render React does for the state it set and the        *)
(* effects of that render.  State setters used with a function see the     *)
(* newest state; a value a handler read from its closure is the value of   *)
(* the render the handler came from.  Fresh identities and clock readings  *)
(* that nothing reads back (message and note ids, timestamps) are left     *)
(* out.                                                                    *)
(***************************************************************************)

\* Sources added, chat messages sent and Create clicks handled in one run.
MaxSources == 2
MaxSends == 2
MaxCreates == 2

chatVars == <<history, isGeneratingChat, chatCalls>>
audioVars == <<audioOverview, audioCalls>>
studioVars == <<notes, isStudioGenerating, studioCalls>>
notifyVars == <<notifications, timers>>
questionVars == <<suggestedQuestions, hasFetchedQuestions, questionFetches>>

\* ---- bookkeeping --------------------------------------------------------

\* The identity of the next request to the service.
NewCall == count.chat + count.script + count.speech + count.studio + count.questions + 1

\* The identity of the next notification.
NewNotification == count.notify + 1

\* One more request to a service function, one more notification.
Issued(kind) == [count EXCEPT ![kind] = @ + 1]

\* What the latest step did.
Did(e) == {i \in DOMAIN last : last[i].e = e}

Without(seq, i) == SubSeq(seq, 1, i - 1) \o SubSeq(seq, i + 1, Len(seq))

\* ---- services/geminiService -------------------------------------------

\* Mutant: the parts in the reverse of the source order.
getSourceParts_Reversed(srcs) ==
    LET part(s) ==
            IF s.mimeType = "application/pdf" /\ s.data # ""
            THEN [inlineData |-> [mimeType |-> "application/pdf", data |-> s.data]]
            ELSE [text |-> <<"--- SOURCE: ", s.name, " ---\n", s.content, "\n--- END SOURCE ---">>]
    IN  [i \in DOMAIN srcs |-> part(srcs[Len(srcs) + 1 - i])]

\* sources.map(...): a PDF that carries data goes inline, anything else as
\* delimited text.  The template string is kept as its pieces; a missing or
\* empty data is "".
getSourceParts(srcs) ==
    LET part(s) ==
            IF s.mimeType = "application/pdf" /\ s.data # ""
            THEN [inlineData |-> [mimeType |-> "application/pdf", data |-> s.data]]
            ELSE [text |-> <<"--- SOURCE: ", s.name, " ---\n", s.content, "\n--- END SOURCE ---">>]
    IN  [i \in DOMAIN srcs |-> part(srcs[i])]

PrimingText == "System: Here are the sources for this session. Use them to answer all future questions."
AckText == "Understood. I have processed the sources."
NoResponseText == "I couldn't generate a response based on these sources."

\* Mutant: the history handed over already ends with the new message.
chatContents_Appended(srcs, hist, newMessage) ==
    LET turn(msg) == [role |-> IF msg.role = "user" THEN "user" ELSE "model",
                      parts |-> <<[text |-> msg.text]>>]
        appended == Append(hist, [role |-> "user", text |-> newMessage])
    IN  <<[role |-> "user", parts |-> <<[text |-> PrimingText]>> \o getSourceParts(srcs)],
          [role |-> "model", parts |-> <<[text |-> AckText]>>]>>
        \o [i \in DOMAIN appended |-> turn(appended[i])]
        \o <<[role |-> "user", parts |-> <<[text |-> newMessage]>>]>>

\* generateChatResponse: the contents of the request it sends.
chatContents(srcs, hist, newMessage) ==
    LET turn(msg) == [role |-> IF msg.role = "user" THEN "user" ELSE "model",
                      parts |-> <<[text |-> msg.text]>>]
    IN  <<[role |-> "user", parts |-> <<[text |-> PrimingText]>> \o getSourceParts(srcs)],
          [role |-> "model", parts |-> <<[text |-> AckText]>>]>>
        \o [i \in DOMAIN hist |-> turn(hist[i])]
        \o <<[role |-> "user", parts |-> <<[text |-> newMessage]>>]>>

\* generateChatResponse: response.text || "I couldn't ..." ("" is a response
\* without text).
chatResponseText(text) == IF text = "" THEN NoResponseText ELSE text

DefaultQuestions == <<"What is the main summary?", "What are the key arguments?", "Who is the intended audience?">>

\* generateSuggestedQuestions after its await: JSON.parse(response.text || "[]"),
\* the three stock questions if that throws.
parseQuestions(text) ==
    CASE text = "" -> << >>
      [] text = "[\"What is new?\"]" -> <<"What is new?">>
      [] text = "[\"Why?\",\"How?\"]" -> <<"Why?", "How?">>
      [] OTHER -> DefaultQuestions

\* ---- what the user and the service can supply -------------------------

\* SourceList.handlePasteSubmit: a title and a text.
Pasted ==
    { [name |-> "notes", content |-> "plain text", mimeType |-> "text/plain", data |-> ""] }

\* SourceList.handleFileUpload: a PDF goes in as base64 data with an empty
\* content; the data of an empty file is empty.
Uploaded ==
    { [name |-> "paper.pdf", content |-> "", mimeType |-> "application/pdf", data |-> "JVBERi0="],
      [name |-> "empty.pdf", content |-> "", mimeType |-> "application/pdf", data |-> ""] }

ChatInputs == {"What is it?", "   "}

ChatResponses == {"It is this.", ""}

QuestionResponses == {"[\"What is new?\"]", "", "Sure! Here are three questions"}

\* ---- App: notifications -------------------------------------------------

\* addNotification: the message goes to the head, one timer is started.
addNotification(msg) ==
    /\ notifications' = <<[n |-> NewNotification, msg |-> msg]>> \o notifications
    /\ timers' = Append(timers, NewNotification)

\* ---- useNotebook: the suggested-questions effect ------------------------

\* Mutant: sources left out of the dependency list.
effectRuns_OnFlagOnly(srcsChanged, flagChanged) == flagChanged

\* useEffect(..., [sources, hasFetchedQuestions]): the effect runs after a
\* render in which one of the two changed.
effectRuns(srcsChanged, flagChanged) == srcsChanged \/ flagChanged

\* The effect after a render with the given sources and flag: the fetch it
\* starts, if any.  fetches, cnt and did are what the step has made of
\* questionFetches, count and last before the render.
questionsEffect(srcs, flag, srcsChanged, fetches, cnt, did) ==
    IF effectRuns(srcsChanged, flag # hasFetchedQuestions) /\ Len(srcs) > 0 /\ ~flag
    THEN /\ questionFetches' = Append(fetches, [call |-> NewCall, sources |-> srcs,
                                                 state |-> "pending"])
         /\ count' = [cnt EXCEPT !.questions = @ + 1]
         /\ last' = did \o <<[e |-> "request", kind |-> "questions", call |-> NewCall]>>
    ELSE /\ questionFetches' = fetches
         /\ count' = cnt
         /\ last' = did

\* ---- useNotebook: sources ------------------------------------------------

\* handleAddSource: addSource, then addNotification; the render that follows
\* runs the suggested-questions effect.
handleAddSource(in) ==
    LET newSource == [id |-> nextId, name |-> in.name, content |-> in.content,
                      mimeType |-> in.mimeType, data |-> in.data,
                      type |-> IF in.mimeType = "text/plain" THEN "text" ELSE "file"]
    IN  /\ nextId <= MaxSources
        /\ sources' = Append(sources, newSource)
        /\ nextId' = nextId + 1
        /\ hasFetchedQuestions' = FALSE
        /\ addNotification(<<"Added source: ", in.name>>)
        /\ questionsEffect(Append(sources, newSource), FALSE, TRUE, questionFetches,
                           Issued("notify"),
                           <<[e |-> "addSource", id |-> nextId],
                             [e |-> "notify", n |-> NewNotification]>>)
        /\ UNCHANGED <<suggestedQuestions, chatVars, audioVars, studioVars>>

\* removeSource, from the delete button of a source in the list.
removeSource(id) ==
    LET kept == SelectSeq(sources, LAMBDA s : s.id # id)
    IN  /\ sources' = kept
        /\ questionsEffect(kept, hasFetchedQuestions, TRUE, questionFetches, count,
                           <<[e |-> "removeSource", id |-> id]>>)
        /\ UNCHANGED <<nextId, suggestedQuestions, hasFetchedQuestions,
                       chatVars, audioVars, studioVars, notifyVars>>

\* The Add button of the paste form.
PasteSource ==
    /\ \E in \in Pasted : handleAddSource(in)
    /\ UNCHANGED vars

\* The file reader has loaded the chosen file.
UploadSource ==
    /\ \E in \in Uploaded : handleAddSource(in)
    /\ UNCHANGED vars

RemoveSource ==
    /\ \E i \in DOMAIN sources : removeSource(sources[i].id)
    /\ UNCHANGED vars

\* The promises of a list that are not yet settled.
Pending(promises) == {i \in DOMAIN promises : promises[i].state = "pending"}

\* The list once promise i has settled with the given state (and value).
Settled(promises, i, outcome) ==
    [promises EXCEPT ![i] = [call |-> @.call, sources |-> @.sources] @@ outcome]

\* The promise of generateSuggestedQuestions is fulfilled: the .then callback.
QuestionsResolve ==
    /\ \E i \in Pending(questionFetches), text \in QuestionResponses :
           /\ suggestedQuestions' = parseQuestions(text)
           /\ hasFetchedQuestions' = TRUE
           /\ questionsEffect(sources, TRUE, FALSE,
                              Settled(questionFetches, i,
                                      [state |-> "fulfilled", value |-> parseQuestions(text)]),
                              count,
                              <<[e |-> "resolved", kind |-> "questions",
                                 call |-> questionFetches[i].call]>>)
           /\ UNCHANGED <<sources, nextId, chatVars, audioVars, studioVars, notifyVars>>
    /\ UNCHANGED vars

\* The promise is rejected (the await of generateContent is outside the try
\* of generateSuggestedQuestions); the effect attached a .then with one
\* argument and nothing else, so nothing handles the rejection.
QuestionsReject ==
    /\ \E i \in Pending(questionFetches) :
           /\ questionFetches' = Settled(questionFetches, i, [state |-> "rejected"])
           /\ last' = <<[e |-> "rejected", kind |-> "questions", call |-> questionFetches[i].call],
                        [e |-> "unhandledrejection", kind |-> "questions",
                         call |-> questionFetches[i].call]>>
           /\ UNCHANGED <<sources, nextId, count, suggestedQuestions, hasFetchedQuestions,
                          chatVars, audioVars, studioVars, notifyVars>>
    /\ UNCHANGED vars

\* Mutant: the callback drops the head of the list.
dismiss_Newest(prev) == SubSeq(prev, 2, Len(prev))

\* The timer callback of addNotification: prev.slice(0, prev.length - 1)
dismiss(prev) == SubSeq(prev, 1, Len(prev) - 1)

\* A notification timer runs; equal delays run in the order they were set.
TimerFires ==
    /\ timers # << >>
    /\ notifications' = dismiss(notifications)
    /\ timers' = Tail(timers)
    /\ count' = Issued("timer")
    /\ last' = <<[e |-> "timer", n |-> Head(timers)]>>
    /\ UNCHANGED <<sources, nextId, chatVars, audioVars, studioVars, questionVars>>
    /\ UNCHANGED vars

\* ---- useNotebook: chat ----------------------------------------------------

ConnectionErrorText == "I encountered an error connecting to the Nexus core. Please check your connection or API Key."

\* Mutant: the user's message is not put into history.
sendMessage_NoUserMessage(text) ==
    /\ count.chat < MaxSends
    /\ history' = history
    /\ isGeneratingChat' = TRUE
    /\ chatCalls' = Append(chatCalls, [call |-> NewCall, text |-> text,
                                       contents |-> chatContents(sources, history, text)])
    /\ count' = Issued("chat")
    /\ last' = <<[e |-> "request", kind |-> "chat", call |-> NewCall]>>
    /\ UNCHANGED <<sources, nextId, audioVars, studioVars, notifyVars, questionVars>>

\* sendMessage up to its await.  sources and history are the ones of the
\* render the handler belongs to.
sendMessage(text) ==
    /\ count.chat < MaxSends
    /\ history' = Append(history, [role |-> "user", text |-> text])
    /\ isGeneratingChat' = TRUE
    /\ chatCalls' = Append(chatCalls, [call |-> NewCall, text |-> text,
                                       contents |-> chatContents(sources, history, text)])
    /\ count' = Issued("chat")
    /\ last' = <<[e |-> "request", kind |-> "chat", call |-> NewCall]>>
    /\ UNCHANGED <<sources, nextId, audioVars, studioVars, notifyVars, questionVars>>

\* Mutant: the form does not look at isGenerating.
submitIgnored_BlankOnly(input) == input \in {"", "   "}

\* ChatInterface.handleSubmit: if (!input.trim() || isGenerating) return
submitIgnored(input) == input \in {"", "   "} \/ isGeneratingChat

\* ChatInterface.handleSuggestionClick: if (isGenerating) return
suggestionIgnored == isGeneratingChat

\* The form of ChatInterface is rendered when there are sources.
HandleSubmit ==
    /\ \E input \in ChatInputs :
           /\ Len(sources) > 0
           /\ IF submitIgnored(input) THEN UNCHANGED nbVars ELSE sendMessage(input)
    /\ UNCHANGED vars

\* The suggested questions are rendered while there are sources and no
\* messages.
HandleSuggestionClick ==
    /\ \E i \in DOMAIN suggestedQuestions :
           /\ Len(sources) > 0
           /\ Len(history) = 0
           /\ IF suggestionIgnored THEN UNCHANGED nbVars ELSE sendMessage(suggestedQuestions[i])
    /\ UNCHANGED vars

\* Mutant: the catch block reports nothing.
sendMessageCatch_Silent(hist) == hist

\* sendMessage, the catch block: setHistory(prev => [...prev, errorMsg])
sendMessageCatch(hist) == Append(hist, [role |-> "model", text |-> ConnectionErrorText])

\* generateChatResponse is fulfilled: the rest of the try block, then finally.
ChatResolves ==
    /\ \E i \in DOMAIN chatCalls, text \in ChatResponses :
           /\ history' = Append(history, [role |-> "model", text |-> chatResponseText(text)])
           /\ isGeneratingChat' = FALSE
           /\ chatCalls' = Without(chatCalls, i)
           /\ last' = <<[e |-> "resolved", kind |-> "chat", call |-> chatCalls[i].call]>>
           /\ UNCHANGED <<sources, nextId, count, audioVars, studioVars, notifyVars, questionVars>>
    /\ UNCHANGED vars

\* Mutant: no finally block after the catch block.
ChatRejects_StaysBusy ==
    /\ \E i \in DOMAIN chatCalls :
           /\ history' = sendMessageCatch(history)
           /\ isGeneratingChat' = isGeneratingChat
           /\ chatCalls' = Without(chatCalls, i)
           /\ last' = <<[e |-> "rejected", kind |-> "chat", call |-> chatCalls[i].call]>>
           /\ UNCHANGED <<sources, nextId, count, audioVars, studioVars, notifyVars, questionVars>>
    /\ UNCHANGED vars

\* generateChatResponse is rejected: the catch block, then finally.
ChatRejects ==
    /\ \E i \in DOMAIN chatCalls :
           /\ history' = sendMessageCatch(history)
           /\ isGeneratingChat' = FALSE
           /\ chatCalls' = Without(chatCalls, i)
           /\ last' = <<[e |-> "rejected", kind |-> "chat", call |-> chatCalls[i].call]>>
           /\ UNCHANGED <<sources, nextId, count, audioVars, studioVars, notifyVars, questionVars>>
    /\ UNCHANGED vars

ChatNext ==
    \/ PasteSource
    \/ QuestionsResolve
    \/ HandleSubmit
    \/ HandleSuggestionClick
    \/ ChatResolves
    \/ ChatRejects

\* The buffers of part 1 play no part in the notebook's runs.
NotebookStart ==
    /\ heap = << >>
    /\ samples = 0
    /\ sampleRate = Num(24000)
    /\ numChannels = Num(1)
    /\ wav = 0
    /\ pc = "ready"
    /\ calls = << >>
    /\ shadow = [in |-> << >>, out |-> << >>]
    /\ writes = 0
    /\ NotebookInit

\* Sources are added, questions are suggested, the user chats.
ChatSpec == NotebookStart /\ [][ChatNext]_<<vars, nbVars>>

GroundingNext ==
    \/ PasteSource
    \/ UploadSource
    \/ RemoveSource
    \/ HandleSubmit
    \/ ChatResolves

\* Sources of every kind come and go, the user chats about what is there.
GroundingSpec == NotebookStart /\ [][GroundingNext]_<<vars, nbVars>>

\* ---- claims about the chat ----------------------------------------------

\* The chat call the latest step settled with the given outcome, if it did.
ChatSettled(c, outcome) ==
    /\ last' # last
    /\ last' = <<[e |-> outcome, kind |-> "chat", call |-> c.call]>>

\* The chat call the latest step started, if it did.
ChatStarted(c) ==
    /\ last' # last
    /\ last' = <<[e |-> "request", kind |-> "chat", call |-> c.call]>>

\* C12: at most one chat request is in flight at any time, and while one is
\* in flight isGeneratingChat is true, the flag on which the form and the
\* suggested questions of ChatInterface ignore the user; a sendMessage starts
\* only when no earlier generateChatResponse call is unsettled.
C12_OneChatInFlight ==
    /\ Len(chatCalls) <= 1
    /\ chatCalls # << >> => isGeneratingChat

\* A second request is in flight after the first has settled, and the form
\* is there for a further submit.
C12_Witness ==
    /\ Len(chatCalls) = 1 /\ isGeneratingChat
    /\ chatCalls[1].call > 1 /\ count.chat = 2
    /\ Len(history) = 3
    /\ Len(sources) > 0

\* C14: when generateChatResponse rejects, the step of sendMessage that
\* handles it finds the user's message at the end of history, appends one
\* model-role message with the connection-error text right after it, leaves
\* the user's message in place, and issues no request.
C14_FailedChatReported ==
    [][\A i \in DOMAIN chatCalls :
         ChatSettled(chatCalls[i], "rejected") =>
            /\ history # << >>
            /\ history[Len(history)] = [role |-> "user", text |-> chatCalls[i].text]
            /\ history' = Append(history, [role |-> "model", text |-> ConnectionErrorText])
            /\ count' = count
            /\ chatCalls' = << >>]_<<vars, nbVars>>

\* The one request failed and was reported.
C14_Witness ==
    /\ last = <<[e |-> "rejected", kind |-> "chat", call |-> 2]>>
    /\ history = <<[role |-> "user", text |-> "What is it?"],
                   [role |-> "model", text |-> ConnectionErrorText]>>
    /\ count.chat = 1
    /\ chatCalls = << >>

\* The part of the priming turn that carries a source.
IsPartOf(part, s) ==
    IF s.mimeType = "application/pdf" /\ s.data # ""
    THEN /\ DOMAIN part = {"inlineData"}
         /\ part.inlineData = [mimeType |-> "application/pdf", data |-> s.data]
    ELSE /\ DOMAIN part = {"text"}
         /\ part.text = <<"--- SOURCE: ", s.name, " ---\n", s.content, "\n--- END SOURCE ---">>

\* C16: the contents of a chat request, at the step that sends it, are: one
\* user turn that holds the priming instruction and then one part for each
\* source the notebook holds, in the order of sources (inline data for a PDF
\* with data, delimited text otherwise); the model's acknowledgement; one
\* turn for each message of the history as it was before this message, in
\* order; and last a user turn with the new message.
C16_GroundedInSources ==
    [][\A i \in DOMAIN chatCalls' :
         ChatStarted(chatCalls'[i]) =>
            LET c == chatCalls'[i].contents
            IN  /\ Len(c) = Len(history) + 3
                /\ c[1].role = "user"
                /\ Len(c[1].parts) = Len(sources) + 1
                /\ c[1].parts[1] = [text |-> PrimingText]
                /\ \A k \in DOMAIN sources : IsPartOf(c[1].parts[k + 1], sources[k])
                /\ c[2] = [role |-> "model", parts |-> <<[text |-> AckText]>>]
                /\ \A k \in DOMAIN history :
                      c[k + 2] = [role |-> history[k].role,
                                  parts |-> <<[text |-> history[k].text]>>]
                /\ c[Len(c)] = [role |-> "user",
                                parts |-> <<[text |-> chatCalls'[i].text]>>]]_<<vars, nbVars>>

\* A second message is sent from a notebook that holds a PDF with data and
\* then a text source.
C16_Witness ==
    /\ Len(chatCalls) = 1 /\ count.chat = 2
    /\ Len(sources) = 2
    /\ sources[1].data # "" /\ sources[2].mimeType = "text/plain"
    /\ Len(chatCalls[1].contents) = 5
    /\ DOMAIN chatCalls[1].contents[1].parts[2] = {"inlineData"}
    /\ DOMAIN chatCalls[1].contents[1].parts[3] = {"text"}
    /\ chatCalls[1].contents[3].role = "user"
    /\ chatCalls[1].contents[4].role = "model"

\* C22: history alternates user, model, user, model, ... and starts with a
\* user message; each send has put in one user message and each settled
\* request one model message after it, so while a request is in flight
\* history ends with the user message of that request, and with a model
\* message when none is.
C22_HistoryAlternates ==
    /\ \A k \in DOMAIN history :
          history[k].role = IF k % 2 = 1 THEN "user" ELSE "model"
    /\ Len(history) = 2 * count.chat - Len(chatCalls)
    /\ chatCalls # << >> =>
          /\ Len(history) % 2 = 1
          /\ history[Len(history)] = [role |-> "user", text |-> chatCalls[1].text]
    /\ chatCalls = << >> => Len(history) % 2 = 0

\* The first exchange ended with the error text, the reply to the second
\* message is awaited.
C22_Witness ==
    /\ Len(history) = 3 /\ Len(chatCalls) = 1
    /\ history[2] = [role |-> "model", text |-> ConnectionErrorText]
    /\ history[3] = [role |-> "user", text |-> chatCalls[1].text]

\* C23: in the step that sends a chat request, the turns of the request after
\* the priming turn and its acknowledgement are, one for one and in order,
\* the messages of history with the new message appended: the messages of
\* the earlier exchanges come from the history as it was before the step,
\* and the new message is there once, as the last turn.
C23_NewMessageOnce ==
    [][\A i \in DOMAIN chatCalls' :
         ChatStarted(chatCalls'[i]) =>
            LET c == chatCalls'[i].contents
                turns == SubSeq(c, 3, Len(c))
                new == [role |-> "user", text |-> chatCalls'[i].text]
            IN  /\ history' = Append(history, new)
                /\ Len(turns) = Len(history')
                /\ \A k \in DOMAIN history' :
                      turns[k] = [role |-> history'[k].role,
                                  parts |-> <<[text |-> history'[k].text]>>]
                /\ SubSeq(turns, 1, Len(history)) =
                      [k \in DOMAIN history |->
                          [role |-> history[k].role, parts |-> <<[text |-> history[k].text]>>]]
      ]_<<vars, nbVars>>

\* The same text is sent a second time: the request holds the first exchange
\* and then the text once more.
C23_Witness ==
    /\ Len(chatCalls) = 1 /\ count.chat = 2
    /\ last = <<[e |-> "request", kind |-> "chat", call |-> chatCalls[1].call]>>
    /\ Len(chatCalls[1].contents) = 5
    /\ chatCalls[1].contents[3] = [role |-> "user", parts |-> <<[text |-> "What is it?"]>>]
    /\ chatCalls[1].contents[4] = [role |-> "model", parts |-> <<[text |-> "It is this."]>>]
    /\ chatCalls[1].contents[5] = [role |-> "user", parts |-> <<[text |-> "What is it?"]>>]

\* C24: isGeneratingChat is true exactly while a chat request is in flight:
\* the step that sends a request finds it false and sets it, and the step in
\* which the request settles, fulfilled or rejected, sets it back to false.
C24_BusyWhileInFlight ==
    [][/\ isGeneratingChat <=> chatCalls # << >>
       /\ isGeneratingChat' <=> chatCalls' # << >>
       /\ \A i \in DOMAIN chatCalls' :
             ChatStarted(chatCalls'[i]) => ~isGeneratingChat /\ isGeneratingChat'
       /\ \A i \in DOMAIN chatCalls :
             (ChatSettled(chatCalls[i], "resolved") \/ ChatSettled(chatCalls[i], "rejected")) =>
                 isGeneratingChat /\ ~isGeneratingChat'
      ]_<<vars, nbVars>>

\* The second request was rejected and the form is enabled again.
C24_Witness ==
    /\ last # << >>
    /\ last[1].e = "rejected"
    /\ last[1].kind = "chat"
    /\ count.chat = 2
    /\ chatCalls = << >>
    /\ ~isGeneratingChat
    /\ Len(history) = 4

\* ---- useNotebook: the audio overview -------------------------------------

Languages == {"English", "Spanish"}

\* response.text of the script request ("" is a response without text).
ScriptResponses == {"Alex: Hi.\nSam: Hello.", ""}

\* The inline data of the speech response: base64, or "" where the response
\* carries none.
SpeechResponses == {"AQ==", "Af8=", ""}

\* generatePodcastScript: response.text || ""
scriptText(text) == IF text = "" THEN "" ELSE text

\* atob, on the data the service supplies here.
atob(base64) ==
    CASE base64 = "AQ==" -> <<1>>
      [] base64 = "Af8=" -> <<1, 255>>
      [] OTHER -> << >>

\* synthesizePodcastAudio after its await: throws without audio data, else
\* returns the decoded bytes as a buffer.
synthesized(base64Audio) ==
    IF base64Audio = ""
    THEN [threw |-> TRUE, bytes |-> << >>]
    ELSE [threw |-> FALSE, bytes |-> atob(base64Audio)]

\* Mutant: the error state carries an audioUrl.
audioFailed_KeepsUrl == [status |-> "error", error |-> "Failed to generate audio.", audioUrl |-> << >>]

\* generateAudio, the catch block: what audioOverview is set to.
audioFailed == [status |-> "error", error |-> "Failed to generate audio."]

\* Mutant: no look at the source list.
generateAudio_NoGuard(language) ==
    /\ audioOverview' = [status |-> "generating_script"]
    /\ audioCalls' = Append(audioCalls, [call |-> NewCall, pc |-> "script",
                                        sources |-> sources, language |-> language])
    /\ count' = Issued("script")
    /\ last' = <<[e |-> "request", kind |-> "script", call |-> NewCall]>>
    /\ UNCHANGED <<sources, nextId, chatVars, studioVars, notifyVars, questionVars>>

\* generateAudio up to its first await, or to its return where there are no
\* sources.
generateAudio(language) ==
    IF Len(sources) = 0
    THEN /\ count' = Issued("returned")
         /\ last' = <<[e |-> "return", fn |-> "generateAudio", n |-> count.returned + 1]>>
         /\ UNCHANGED <<sources, nextId, chatVars, audioVars, studioVars, notifyVars,
                        questionVars>>
    ELSE /\ audioOverview' = [status |-> "generating_script"]
         /\ audioCalls' = Append(audioCalls, [call |-> NewCall, pc |-> "script",
                                             sources |-> sources, language |-> language])
         /\ count' = Issued("script")
         /\ last' = <<[e |-> "request", kind |-> "script", call |-> NewCall]>>
         /\ UNCHANGED <<sources, nextId, chatVars, studioVars, notifyVars, questionVars>>

\* Mutant: the player shows the Generate button after an error too.
HandleGenerate_Retry ==
    /\ \E language \in Languages :
           /\ Len(sources) > 0
           /\ audioOverview.status \in {"idle", "error"}
           /\ generateAudio(language)
    /\ UNCHANGED vars

\* The Generate button of AudioPlayer: the player is rendered when there are
\* sources, the button while the status is idle.
HandleGenerate ==
    /\ \E language \in Languages :
           /\ Len(sources) > 0
           /\ audioOverview.status = "idle"
           /\ generateAudio(language)
    /\ UNCHANGED vars

\* Mutant: the synthesizing state does not carry the script.
synthesize_NoScript(i, outcome, script) ==
    /\ audioOverview' = [status |-> "synthesizing"]
    /\ audioCalls' = [audioCalls EXCEPT ![i] =
                        [call |-> NewCall, pc |-> "speech", script |-> script]]
    /\ count' = Issued("speech")
    /\ last' = <<[e |-> outcome, kind |-> "script", call |-> audioCalls[i].call, text |-> script],
                 [e |-> "request", kind |-> "speech", call |-> NewCall, script |-> script]>>

\* generateAudio from the first await to the second: the script is shown,
\* its synthesis requested.  outcome is how the first await ended.
synthesize(i, outcome, script) ==
    /\ audioOverview' = [status |-> "synthesizing", script |-> script]
    /\ audioCalls' = [audioCalls EXCEPT ![i] =
                        [call |-> NewCall, pc |-> "speech", script |-> script]]
    /\ count' = Issued("speech")
    /\ last' = <<[e |-> outcome, kind |-> "script", call |-> audioCalls[i].call, text |-> script],
                 [e |-> "request", kind |-> "speech", call |-> NewCall, script |-> script]>>

\* generateAudio, the catch block.
giveUp(i, kind) ==
    /\ audioOverview' = audioFailed
    /\ audioCalls' = Without(audioCalls, i)
    /\ count' = count
    /\ last' = <<[e |-> "rejected", kind |-> kind, call |-> audioCalls[i].call]>>

\* generatePodcastScript is fulfilled.
ScriptResolves ==
    /\ \E i \in DOMAIN audioCalls, text \in ScriptResponses :
           /\ audioCalls[i].pc = "script"
           /\ synthesize(i, "resolved", scriptText(text))
           /\ UNCHANGED <<sources, nextId, chatVars, studioVars, notifyVars, questionVars>>
    /\ UNCHANGED vars

\* Mutant: a rejected script request is followed by the synthesis of an empty script.
ScriptRejects_GoesOn ==
    /\ \E i \in DOMAIN audioCalls :
           /\ audioCalls[i].pc = "script"
           /\ synthesize(i, "rejected", "")
           /\ UNCHANGED <<sources, nextId, chatVars, studioVars, notifyVars, questionVars>>
    /\ UNCHANGED vars

\* generatePodcastScript is rejected.
ScriptRejects ==
    /\ \E i \in DOMAIN audioCalls :
           /\ audioCalls[i].pc = "script"
           /\ giveUp(i, "script")
           /\ UNCHANGED <<sources, nextId, chatVars, studioVars, notifyVars, questionVars>>
    /\ UNCHANGED vars

\* generateAudio after addWavHeader has returned wavBuffer or thrown.  The
\* URL of the blob stands for the bytes of the blob.
present(i, wavBuffer) ==
    IF wavBuffer.threw
    THEN giveUp(i, "addWavHeader")
    ELSE /\ audioOverview' = [status |-> "ready", audioUrl |-> wavBuffer.heap[wavBuffer.ref],
                              script |-> audioCalls[i].script]
         /\ audioCalls' = Without(audioCalls, i)
         /\ count' = count
         /\ last' = <<[e |-> "resolved", kind |-> "speech", call |-> audioCalls[i].call]>>

\* The request of synthesizePodcastAudio is answered: the rest of
\* synthesizePodcastAudio, then the rest of generateAudio's try block, or its
\* catch block if one of the two throws.
SpeechResolves ==
    /\ \E i \in DOMAIN audioCalls, data \in SpeechResponses :
           /\ audioCalls[i].pc = "speech"
           /\ IF synthesized(data).threw
              THEN giveUp(i, "speech")
              ELSE present(i, addWavHeader(<<synthesized(data).bytes>>, 1, Num(24000), Num(1)))
           /\ UNCHANGED <<sources, nextId, chatVars, studioVars, notifyVars, questionVars>>
    /\ UNCHANGED vars

\* The request of synthesizePodcastAudio fails.
SpeechRejects ==
    /\ \E i \in DOMAIN audioCalls :
           /\ audioCalls[i].pc = "speech"
           /\ giveUp(i, "speech")
           /\ UNCHANGED <<sources, nextId, chatVars, studioVars, notifyVars, questionVars>>
    /\ UNCHANGED vars

AudioNext ==
    \/ PasteSource
    \/ RemoveSource
    \/ HandleGenerate
    \/ ScriptResolves
    \/ ScriptRejects
    \/ SpeechResolves
    \/ SpeechRejects

\* Sources come and go, the user asks for the audio overview.
AudioSpec == NotebookStart /\ [][AudioNext]_<<vars, nbVars>>

\* ---- claims about the audio overview -------------------------------------

\* C11: a speech-synthesis request is issued only in the step in which a
\* script request that was pending is fulfilled, and its input is the script
\* that request returned; a step in which a script request is rejected
\* issues no request and ends that generateAudio, so at any time no more
\* speech requests have been issued than script requests.
C11_ScriptThenSpeech ==
    [][/\ count'.speech # count.speech =>
            /\ count'.speech = count.speech + 1
            /\ Len(last') = 2
            /\ last'[1].e = "resolved" /\ last'[1].kind = "script"
            /\ \E i \in DOMAIN audioCalls :
                  /\ audioCalls[i].pc = "script"
                  /\ audioCalls[i].call = last'[1].call
            /\ last'[2].e = "request" /\ last'[2].kind = "speech"
            /\ last'[2].script = last'[1].text
       /\ count'.speech <= count'.script
       /\ \A i \in DOMAIN audioCalls :
            (last' # last /\ last'[1] = [e |-> "rejected", kind |-> "script",
                                         call |-> audioCalls[i].call]) =>
                /\ count' = count
                /\ \A j \in DOMAIN audioCalls' : audioCalls'[j].call # audioCalls[i].call
      ]_<<vars, nbVars>>

\* The script has arrived and its synthesis is pending.
C11_Witness ==
    /\ audioOverview = [status |-> "synthesizing", script |-> "Alex: Hi.\nSam: Hello."]
    /\ Len(audioCalls) = 1 /\ audioCalls[1].pc = "speech"
    /\ audioCalls[1].script = "Alex: Hi.\nSam: Hello."
    /\ count.script = 1 /\ count.speech = 1
    /\ Len(last) = 2 /\ last[2].script = last[1].text

\* C15: a step in which generatePodcastScript or synthesizePodcastAudio is
\* rejected, the latter also for a response without audio data, sets
\* audioOverview to status 'error' with error 'Failed to generate audio.' and
\* nothing else, issues no request and ends that generateAudio.
C15_FailedAudioReported ==
    [][\A i \in DOMAIN audioCalls :
         (last' # last /\ last'[1].e = "rejected" /\ last'[1].kind \in {"script", "speech"}
            /\ last'[1].call = audioCalls[i].call) =>
                /\ audioOverview' = [status |-> "error", error |-> "Failed to generate audio."]
                /\ DOMAIN audioOverview' = {"status", "error"}
                /\ count' = count
                /\ \A j \in DOMAIN audioCalls' : audioCalls'[j].call # audioCalls[i].call
      ]_<<vars, nbVars>>

\* The script arrived, its synthesis failed.
C15_Witness ==
    /\ audioOverview = [status |-> "error", error |-> "Failed to generate audio."]
    /\ last = <<[e |-> "rejected", kind |-> "speech", call |-> count.questions + 2]>>
    /\ count.script = 1 /\ count.speech = 1
    /\ audioCalls = << >>

\* C25: the status of audioOverview moves only from idle to
\* generating_script, from there to synthesizing, from there to ready, or
\* from generating_script or synthesizing to error, and audioOverview
\* changes in no other way; 'synthesizing' carries the script that the script
\* request returned, 'ready' carries that same script and an audioUrl.
C25_StatusOrder ==
    [][/\ audioOverview' # audioOverview =>
            <<audioOverview.status, audioOverview'.status>> \in
                { <<"idle", "generating_script">>,
                  <<"generating_script", "synthesizing">>,
                  <<"synthesizing", "ready">>,
                  <<"generating_script", "error">>,
                  <<"synthesizing", "error">> }
       /\ audioOverview'.status = "synthesizing" =>
            /\ DOMAIN audioOverview' = {"status", "script"}
            /\ audioOverview # audioOverview' =>
                  /\ last'[1].e = "resolved" /\ last'[1].kind = "script"
                  /\ audioOverview'.script = last'[1].text
       /\ audioOverview'.status = "ready" =>
            /\ DOMAIN audioOverview' = {"status", "audioUrl", "script"}
            /\ audioOverview'.audioUrl # << >>
            /\ audioOverview # audioOverview' =>
                  audioOverview'.script = audioOverview.script
      ]_<<vars, nbVars>>

\* The overview is ready: it carries the script and the URL of a WAV file of
\* a 44-byte header and two bytes of audio.
C25_Witness ==
    /\ audioOverview.status = "ready"
    /\ audioOverview.script = "Alex: Hi.\nSam: Hello."
    /\ Len(audioOverview.audioUrl) = 46
    /\ last # << >>
    /\ last[1].e = "resolved"
    /\ last[1].kind = "speech"

\* C26: the Generate button starts generateAudio only while the status is
\* 'idle', and no step brings the status back to 'idle'; so no more than one
\* script request is ever issued, at most one generateAudio is in progress,
\* and from 'ready' and from 'error' audioOverview never changes again.
C26_OneGeneration ==
    [][/\ count'.script # count.script =>
            /\ audioOverview.status = "idle"
            /\ audioOverview'.status = "generating_script"
            /\ count.script = 0
       /\ audioOverview.status # "idle" => audioOverview'.status # "idle"
       /\ audioOverview.status \in {"ready", "error"} =>
            /\ audioOverview' = audioOverview
            /\ count'.script = count.script /\ count'.speech = count.speech
            /\ audioCalls = << >> /\ audioCalls' = << >>
       /\ count'.script <= 1
       /\ Len(audioCalls') <= 1
      ]_<<vars, nbVars>>

\* The generation failed, and afterwards the sources were removed and a new
\* one added: the status is still 'error' and there has been no second request.
C26_Witness ==
    /\ audioOverview.status = "error"
    /\ count.script = 1
    /\ audioCalls = << >>
    /\ last # << >>
    /\ last[1].e = "addSource"
    /\ Len(sources) > 0

\* ---- the suggested questions ----------------------------------------------

QuestionsNext ==
    \/ PasteSource
    \/ RemoveSource
    \/ QuestionsResolve
    \/ QuestionsReject

\* Sources come and go, the suggested questions follow.
QuestionsSpec == NotebookStart /\ [][QuestionsNext]_<<vars, nbVars>>

\* C13: no rejection of a call to the generative-AI service goes unhandled.
C13_RejectionsCaught == Did("unhandledrejection") = {}

\* C18: the step of an addSource starts one fetch of suggested questions,
\* and the source list of that fetch holds the source just added, whether or
\* not an earlier fetch is still pending.
C18_AddSourceFetches ==
    [][(last' # last /\ last'[1].e = "addSource") =>
          /\ count'.questions = count.questions + 1
          /\ Len(questionFetches') = Len(questionFetches) + 1
          /\ LET fetch == questionFetches'[Len(questionFetches')]
             IN  /\ fetch.call = NewCall
                 /\ fetch.sources = sources'
                 /\ \E k \in DOMAIN fetch.sources : fetch.sources[k].id = last'[1].id
      ]_<<vars, nbVars>>

\* A source was added while the fetch for the first source was pending.
C18_Witness ==
    /\ last # << >>
    /\ last[1].e = "addSource"
    /\ Len(questionFetches) = 2
    /\ Pending(questionFetches) = {1, 2}
    /\ Len(questionFetches[1].sources) = 1
    /\ Len(questionFetches[2].sources) = 2
    /\ questionFetches[2].sources[2].id = last[1].id

\* C21: once every suggested-questions fetch has settled, suggestedQuestions
\* holds what the most recently issued fetch (the one made with the current
\* source list) returned, in whatever order the responses arrived.
C21_NewestFetchWins ==
    LET newest == questionFetches[Len(questionFetches)]
    IN  (/\ questionFetches # << >>
         /\ Pending(questionFetches) = {}
         /\ newest.state = "fulfilled"
         /\ newest.sources = sources)
            => suggestedQuestions = newest.value

\* ---- App: the studio ------------------------------------------------------------

\* The tools of Studio, one Create button each.
StudioTools == {"summary", "video_script", "mind_map", "report", "flashcards", "quiz"}

\* response.text of the studio request ("" is a response without text).
StudioResponses == {"# Overview", ""}

\* task.replace('_', ' ')
replaceUnderscore(task) ==
    CASE task = "video_script" -> "video script"
      [] task = "mind_map" -> "mind map"
      [] OTHER -> task

\* generateStudioContent: the title and the content it returns.
studioContent(task, text) ==
    LET isJson == task \in {"flashcards", "quiz"}
        title == CASE task = "summary" -> "Briefing Document"
                   [] task = "flashcards" -> "Flashcards"
                   [] task = "quiz" -> "Practice Quiz"
                   [] task = "mind_map" -> "Mind Map"
                   [] task = "video_script" -> "Video Script"
                   [] task = "report" -> "Formal Report"
                   [] OTHER -> "Summary"
    IN  [title |-> title,
         content |-> IF text # "" THEN text
                     ELSE IF isJson THEN "[]" ELSE "Failed to generate content."]

\* Mutant: every note is a saved_response.
noteType_AlwaysSaved(task) == "saved_response"

\* handleGenerateStudio: the type of the note it saves.
noteType(task) ==
    IF task = "quiz" \/ task = "flashcards" THEN "studio_output" ELSE "saved_response"

\* saveNote: setNotes(prev => [newNote, ...prev])
saveNote(title, content, type, tags) ==
    notes' = <<[title |-> title, content |-> content, type |-> type, tags |-> tags]>> \o notes

\* handleGenerateStudio up to its await.
handleGenerateStudio(task) ==
    IF Len(sources) = 0
    THEN /\ addNotification("Add sources first!")
         /\ count' = [count EXCEPT !.notify = @ + 1, !.create = @ + 1]
         /\ last' = <<[e |-> "notify", n |-> NewNotification]>>
         /\ UNCHANGED <<sources, nextId, chatVars, audioVars, studioVars, questionVars>>
    ELSE /\ isStudioGenerating' = TRUE
         /\ addNotification(<<"Generating ", replaceUnderscore(task), "...">>)
         /\ studioCalls' = Append(studioCalls, [call |-> NewCall, task |-> task,
                                               sources |-> sources])
         /\ count' = [count EXCEPT !.notify = @ + 1, !.create = @ + 1, !.studio = @ + 1]
         /\ last' = <<[e |-> "notify", n |-> NewNotification],
                      [e |-> "request", kind |-> "studio", call |-> NewCall]>>
         /\ UNCHANGED <<sources, nextId, notes, chatVars, audioVars, questionVars>>

\* Mutant: the Create buttons are never disabled.
createDisabled_Never == FALSE

\* Studio: disabled={isGenerating} on every Create button.
createDisabled == isStudioGenerating

\* The generations a client of the hook may ask for by calling generateAudio.
MaxGenerates == 2

\* generateAudio as useNotebook returns it, called whatever the source list
\* and the status are.
CallGenerateAudio ==
    /\ \E language \in Languages :
           /\ count.script + count.returned < MaxGenerates
           /\ generateAudio(language)
    /\ UNCHANGED vars

\* A click on one of the Create buttons of Studio.
HandleCreate ==
    /\ \E task \in StudioTools :
           /\ ~createDisabled
           /\ count.create < MaxCreates
           /\ handleGenerateStudio(task)
    /\ UNCHANGED vars

\* generateStudioContent is fulfilled: the rest of the try block, then
\* finally.
StudioResolves ==
    /\ \E i \in DOMAIN studioCalls, text \in StudioResponses :
           LET task == studioCalls[i].task
               result == studioContent(task, text)
           IN  /\ saveNote(result.title, result.content, noteType(task), <<task>>)
               /\ addNotification(<<result.title, " created!">>)
               /\ isStudioGenerating' = FALSE
               /\ studioCalls' = Without(studioCalls, i)
               /\ count' = Issued("notify")
               /\ last' = <<[e |-> "resolved", kind |-> "studio", call |-> studioCalls[i].call],
                            [e |-> "notify", n |-> NewNotification]>>
               /\ UNCHANGED <<sources, nextId, chatVars, audioVars, questionVars>>
    /\ UNCHANGED vars

\* generateStudioContent is rejected: the catch block, then finally.
StudioRejects ==
    /\ \E i \in DOMAIN studioCalls :
           /\ addNotification("Failed to generate content.")
           /\ isStudioGenerating' = FALSE
           /\ studioCalls' = Without(studioCalls, i)
           /\ count' = Issued("notify")
           /\ last' = <<[e |-> "rejected", kind |-> "studio", call |-> studioCalls[i].call],
                        [e |-> "notify", n |-> NewNotification]>>
           /\ UNCHANGED <<sources, nextId, notes, chatVars, audioVars, questionVars>>
    /\ UNCHANGED vars

StudioNext ==
    \/ PasteSource
    \/ HandleCreate
    \/ StudioResolves
    \/ StudioRejects

\* Sources are added, the user creates studio notes.
StudioSpec == NotebookStart /\ [][StudioNext]_<<vars, nbVars>>

NotifyNext ==
    \/ PasteSource
    \/ HandleCreate
    \/ StudioRejects
    \/ TimerFires

\* Sources are added, studio generations start and fail, and the
\* notifications of all that come and go.
NotifySpec == NotebookStart /\ [][NotifyNext]_<<vars, nbVars>>

GuardNext ==
    \/ PasteSource
    \/ CallGenerateAudio
    \/ ScriptRejects
    \/ HandleCreate

\* Generations of both kinds are asked for before there are sources and
\* after.
GuardSpec == NotebookStart /\ [][GuardNext]_<<vars, nbVars>>

\* ---- claims about the studio and the notifications -------------------------

\* The notifications, oldest first, by the identity of their add.
Shown == [i \in DOMAIN notifications |-> notifications[Len(notifications) + 1 - i].n]

\* C17: a step that adds a notification puts it at the head of the list and
\* sets one timer; a timer that runs finds its own notification at the end of
\* the list and removes that one; the length of the list is the number of
\* adds less the number of timers run; and when no timer is pending the list
\* is empty.
C17_NotificationQueue ==
    [][/\ \A k \in DOMAIN last' :
            (last' # last /\ last'[k].e = "notify") =>
                /\ notifications' = <<notifications'[1]>> \o notifications
                /\ notifications'[1].n = last'[k].n
                /\ timers' = Append(timers, last'[k].n)
       /\ (last' # last /\ last'[1].e = "timer") =>
                /\ notifications # << >>
                /\ notifications[Len(notifications)].n = last'[1].n
                /\ notifications' = SubSeq(notifications, 1, Len(notifications) - 1)
       /\ Len(notifications') = count'.notify - count'.timer
       /\ Shown' = timers'
       /\ timers' = << >> => notifications' = << >>
      ]_<<vars, nbVars>>

\* Three notifications were added, the timer of the first has run and took
\* the first with it.
C17_Witness ==
    /\ count.notify = 3 /\ count.timer = 1
    /\ last = <<[e |-> "timer", n |-> 1]>>
    /\ Len(notifications) = 2
    /\ notifications[1].n = 3 /\ notifications[2].n = 2

\* C19: at most one studio generation is in flight at any time;
\* isStudioGenerating, on which every Create button is disabled, is true
\* exactly while one is, so it is true from the start of the request and
\* false after the request has settled, fulfilled or rejected.
C19_OneStudioInFlight ==
    /\ Len(studioCalls) <= 1
    /\ isStudioGenerating <=> studioCalls # << >>
    /\ createDisabled <=> studioCalls # << >>

\* A second generation is in flight after the first one failed.
C19_Witness ==
    /\ Len(studioCalls) = 1 /\ isStudioGenerating
    /\ count.studio = 2 /\ count.create = 2
    /\ notes = << >>
    /\ \E i \in DOMAIN notifications : notifications[i].msg = "Failed to generate content."

\* C20: a step in which a studio generation is fulfilled puts one note at the
\* head of notes, tagged with the task of the generation and of type
\* 'studio_output' if the task is 'quiz' or 'flashcards' and 'saved_response'
\* if it is not; a step in which one is rejected leaves notes as they are.
C20_OneNotePerGeneration ==
    [][\A i \in DOMAIN studioCalls :
         /\ (last' # last /\ last'[1] = [e |-> "resolved", kind |-> "studio",
                                         call |-> studioCalls[i].call]) =>
                /\ Len(notes') = Len(notes) + 1
                /\ SubSeq(notes', 2, Len(notes')) = notes
                /\ notes'[1].tags = <<studioCalls[i].task>>
                /\ notes'[1].type = "studio_output" <=>
                        studioCalls[i].task \in {"quiz", "flashcards"}
                /\ notes'[1].type = "saved_response" <=>
                        studioCalls[i].task \notin {"quiz", "flashcards"}
         /\ (last' # last /\ last'[1] = [e |-> "rejected", kind |-> "studio",
                                         call |-> studioCalls[i].call]) =>
                notes' = notes
      ]_<<vars, nbVars>>

\* A quiz was generated after a report.
C20_Witness ==
    /\ Len(notes) = 2
    /\ notes[1].tags = <<"quiz">> /\ notes[1].type = "studio_output"
    /\ notes[1].title = "Practice Quiz"
    /\ notes[2].tags = <<"report">> /\ notes[2].type = "saved_response"
    /\ last[1].e = "resolved"

\* C27: while the source list is empty no script request and no studio
\* request is issued; a generateAudio called then returns and leaves
\* audioOverview and everything else as it was; a handleGenerateStudio called
\* then adds the notification 'Add sources first!' with its timer and leaves
\* isStudioGenerating, the notes and everything else as they were.
C27_NothingWithoutSources ==
    [][Len(sources) = 0 =>
          /\ count'.script = count.script
          /\ count'.studio = count.studio
          /\ count'.returned # count.returned =>
                /\ last' = <<[e |-> "return", fn |-> "generateAudio", n |-> count'.returned]>>
                /\ UNCHANGED <<sources, nextId, chatVars, audioVars, studioVars, notifyVars,
                               questionVars>>
          /\ count'.create # count.create =>
                /\ notifications' = <<[n |-> NewNotification, msg |-> "Add sources first!"]>>
                                        \o notifications
                /\ timers' = Append(timers, NewNotification)
                /\ ~isStudioGenerating'
                /\ UNCHANGED <<sources, nextId, chatVars, audioVars, studioVars, questionVars>>
      ]_<<vars, nbVars>>

\* With no sources a Create button was clicked and then generateAudio was
\* called: one notification, nothing requested, nothing generated.
C27_Witness ==
    /\ sources = << >>
    /\ last = <<[e |-> "return", fn |-> "generateAudio", n |-> 1]>>
    /\ audioOverview = [status |-> "idle"]
    /\ audioCalls = << >>
    /\ count.create = 1
    /\ Len(notifications) = 1
    /\ notifications[1].msg = "Add sources first!"
    /\ ~isStudioGenerating
    /\ studioCalls = << >>
    /\ notes = << >>
    /\ count.script = 0
    /\ count.studio = 0

===========================================================================
